---- MODULE Spec2Model ----
(***************************************************************************)
(* A model of aws_inventory.py: the script walks every credential profile  *)
(* and region, writes one csv row per ec2 instance and per eks node, then  *)
(* walks every kubeconfig context and writes one row per pod, and finally  *)
(* reports three totals.  The collaborators (boto3, the kubernetes client) *)
(* are the environment: every call either returns a response drawn from a  *)
(* small set or raises an exception of one of the classes it can raise.    *)
(***************************************************************************)
EXTENDS Integers, Sequences, FiniteSets, TLC

(***************************************************************************)
(* Bounds of the model.                                                    *)
(***************************************************************************)
MaxProfiles == 2
MaxRegions == 2
MaxPages == 2
MaxInstances == 2
MaxClusters == 2
MaxNodegroups == 2
MaxNodes == 2
MaxContexts == 2
MaxPods == 2
MaxRows == 2
MaxFaults == 1

(***************************************************************************)
(* The values the collaborators' answers are drawn from.                   *)
(***************************************************************************)
ProfileNames == <<"prod", "default", "netsec-test", "dev">>
RegionNames == <<"us-east-1", "af-south-1", "eu-west-1">>
InstanceIds == <<"i-01", "i-02", "i-03", "i-04">>
ClusterNames == <<"eks-a", "eks-b", "eks-c", "eks-d">>
NodegroupNames == <<"ng-1", "ng-2", "ng-3", "ng-4">>
NodeNames == <<"asg-1", "asg-2", "asg-3", "asg-4">>
ContextNames == <<"ctx-a", "ctx-b", "ctx-c", "ctx-d">>
PodItems ==
    << <<"pod-1", "default">>, <<"pod-2", "kube-system">>,
       <<"pod-3", "default">>, <<"pod-4", "kube-system">> >>

Min(a, b) == IF a < b THEN a ELSE b

Prefixes(pool, n) == {SubSeq(pool, 1, k) : k \in 0..Min(n, Len(pool))}

Suffixes(pool, n) ==
    {SubSeq(pool, Len(pool) - k + 1, Len(pool)) : k \in 0..Min(n, Len(pool))}

\* the entries of pool at the positions I, in the order of pool
Pick(pool, I) ==
    LET at == SelectSeq([i \in DOMAIN pool |-> i], LAMBDA i : i \in I)
    IN  [k \in DOMAIN at |-> pool[at[k]]]

\* the listings of at most n names a collaborator may return
Listings(pool, n) ==
    {Pick(pool, I) : I \in {J \in SUBSET DOMAIN pool : Cardinality(J) <= n}}

(***************************************************************************)
(* Exception classes.  boto3 raises ClientError for an error response of   *)
(* the service and other BotoCoreError subclasses (EndpointConnectionError,*)
(* NoCredentialsError, ...) for everything else.  The kubernetes client    *)
(* raises ApiException for an error response, ConfigException for a        *)
(* kubeconfig it cannot load and urllib3's MaxRetryError for a control     *)
(* plane it cannot reach.                                                  *)
(***************************************************************************)
SessionFaults == {"BotoCoreError"}
BotoFaults == {"ClientError", "BotoCoreError"}
ConfigFaults == {"ApiException", "ConfigException"}
PodFaults == {"ApiException", "MaxRetryError"}

Unbound == -1

VARIABLES
    credentials,            \* session.available_profiles
    available_regions,      \* session.get_available_regions('ec2')
    regions,                \* the regions kept by the filter of line 49
    pc,                     \* position of the script
    ai, ri,                 \* position of the account and of the region loop
    csv, csv_open,          \* rows of the output file, and whether it is open
    instance_count, node_count, pod_count,
    account_instance_count, account_node_count, account_pod_count,
    ec2_pages,              \* the service's paginated instance listing of the pair
    clusters, nodegroups,   \* rest of the cluster and of the nodegroup loop
    cluster,                \* the context at hand: the loop variable of line 141
    contexts,               \* rest of the context loop
    log, console,           \* lines of aws_inventory.log and of stdout; the
                            \* lines that only announce a discovered resource
                            \* are not recorded
    uncaught,               \* the exception that ended the script, if any
    faults                  \* faults the collaborators have raised so far

vars == <<credentials, available_regions, regions, pc, ai, ri, csv, csv_open,
          instance_count, node_count, pod_count,
          account_instance_count, account_node_count, account_pod_count,
          ec2_pages, clusters, nodegroups, cluster, contexts,
          log, console, uncaught, faults>>

inputs == <<credentials, available_regions, regions>>
totals == <<instance_count, node_count, pod_count>>
pair_counts == <<account_instance_count, account_node_count>>
eks_loops == <<clusters, nodegroups>>
kube_loops == <<contexts>>
output == <<log, console>>

(***************************************************************************)
(* Pure parts of the script.                                               *)
(***************************************************************************)
unused_regions ==
    <<"af-south-1", "ap-east-1", "ap-south-2", "ap-southeast-3",
      "ap-southeast-4", "ca-west-1", "eu-central-2", "eu-south-1",
      "eu-south-2", "il-central-1", "me-central-1", "me-south-1">>

InList(x, l) == \E i \in DOMAIN l : l[i] = x

\* a variant of SkipAccount that compares the whole name
SkipAccountExact(account) == account = "default" \/ account = "netsec"

\* Python's `needle in s` on strings
IsSubstring(needle, s) ==
    \E i \in 1..(Len(s) - Len(needle) + 1) :
        SubSeq(s, i, i + Len(needle) - 1) = needle

FilterRegions(avail) == SelectSeq(avail, LAMBDA r : ~InList(r, unused_regions))

SkipAccount(account) == account = "default" \/ IsSubstring("netsec", account)

Header == <<"Type", "Name", "Account / ARN", "Region / Namespace">>

RECURSIVE Flatten(_)
Flatten(ss) == IF ss = <<>> THEN <<>> ELSE Head(ss) \o Flatten(Tail(ss))

\* the reservations of a page that holds the instances ids: one reservation
\* for all of them, or one reservation each
Shapes(ids) ==
    IF ids = <<>> THEN {<<>>}
    ELSE {<<ids>>, [i \in DOMAIN ids |-> <<ids[i]>>]}

\* the ways the service may cut the instances ids into k further pages
RECURSIVE Cut(_, _)
Cut(ids, k) ==
    IF k = 0 THEN IF ids = <<>> THEN {<<>>} ELSE {}
    ELSE UNION {{<< <<SubSeq(ids, 1, j)>> >> \o rest :
                    rest \in Cut(SubSeq(ids, j + 1, Len(ids)), k - 1)} :
                j \in 1..Len(ids)}

\* the listings of ids in k pages: a first page, which may be empty, and
\* k - 1 further pages of one reservation each
Paginate(ids, k) ==
    UNION {{<<page>> \o rest :
               page \in Shapes(SubSeq(ids, 1, j)),
               rest \in Cut(SubSeq(ids, j + 1, Len(ids)), k - 1)} :
           j \in 0..Len(ids)}

\* the paginated listings whose first page holds at most n instances
EC2Listings(n) ==
    {l \in UNION {Paginate(ids, k) :
                     ids \in Prefixes(InstanceIds, MaxInstances), k \in 1..MaxPages} :
        Len(Flatten(l[1])) <= n}

RowsLeft == MaxRows - (Len(csv) - 1)

LogInfo(l, msg) == Append(l, <<"INFO">> \o msg)
LogError(l, msg) == Append(l, <<"ERROR">> \o msg)

\* a variant of WriteRows that puts new rows right below the header
WriteRowsBelowHeader(file, rows) == <<Head(file)>> \o rows \o Tail(file)

\* csv_writer.writerow, once per row of rows: the file grows at its end
WriteRows(file, rows) == file \o rows

\* a variant of Counted that counts a response once, whatever its size
CountedOncePerResponse(count, rows) == IF rows = <<>> THEN count ELSE count + 1

\* `count += 1`, once per row of rows
Counted(count, rows) == count + Len(rows)

Raise(site, kind) ==
    /\ pc' = "crashed"
    /\ uncaught' = <<site, kind>>

(***************************************************************************)
(* The state after lines 20-59.                                            *)
(***************************************************************************)
Init ==
    /\ credentials \in Listings(ProfileNames, MaxProfiles)
    /\ available_regions \in Listings(RegionNames, MaxRegions)
    /\ regions = FilterRegions(available_regions)
    /\ pc = "accounts"
    /\ ai = 0
    /\ ri = 0
    /\ csv = <<Header>>
    /\ csv_open = TRUE
    /\ instance_count = 0
    /\ node_count = 0
    /\ pod_count = 0
    /\ account_instance_count = Unbound
    /\ account_node_count = Unbound
    /\ account_pod_count = Unbound
    /\ ec2_pages = <<>>
    /\ clusters = <<>>
    /\ nodegroups = <<>>
    /\ cluster = ""
    /\ contexts = <<>>
    /\ log = <<>>
    /\ console = <<>>
    /\ uncaught = <<>>
    /\ faults = 0

(***************************************************************************)
(* Lines 62-67: the account loop and its filter.                           *)
(***************************************************************************)
NextAccount ==
    /\ pc = "accounts"
    /\ IF ai = Len(credentials)
       THEN /\ pc' = "list_contexts"
            /\ UNCHANGED <<ai, ri, log, console>>
       ELSE /\ ai' = ai + 1
            /\ IF SkipAccount(credentials[ai + 1])
               THEN UNCHANGED <<pc, ri, log, console>>
               ELSE /\ log' = LogInfo(log, <<"Account", credentials[ai + 1]>>)
                    /\ console' = Append(console, <<"Account", credentials[ai + 1]>>)
                    /\ ri' = 0
                    /\ pc' = "regions"
    /\ UNCHANGED <<inputs, csv, csv_open, totals, pair_counts, account_pod_count,
                   ec2_pages, eks_loops, cluster, kube_loops, uncaught,
                   faults>>

(***************************************************************************)
(* Lines 70-86: the region loop, the session and its two clients, and the  *)
(* per-pair counters.  Nothing here is inside a try block.                 *)
(***************************************************************************)
NextRegion ==
    /\ pc = "regions"
    /\ IF ri = Len(regions)
       THEN /\ pc' = "accounts"
            /\ UNCHANGED <<ri, log, console, pair_counts, account_pod_count,
                           uncaught, faults>>
       ELSE /\ ri' = ri + 1
            /\ log' = LogInfo(log, <<"Region", regions[ri + 1]>>)
            /\ console' = Append(console, <<"Pair", credentials[ai], regions[ri + 1]>>)
            /\ \/ /\ account_instance_count' = 0
                  /\ account_node_count' = 0
                  /\ account_pod_count' = 0
                  /\ pc' = "describe_instances"
                  /\ UNCHANGED <<uncaught, faults>>
               \/ \E kind \in SessionFaults :
                      /\ faults < MaxFaults
                      /\ faults' = faults + 1
                      /\ Raise("session", kind)
                      /\ UNCHANGED <<pair_counts, account_pod_count>>
    /\ UNCHANGED <<inputs, ai, csv, csv_open, totals, ec2_pages,
                   eks_loops, cluster, kube_loops>>

(***************************************************************************)
(* Lines 89-101: one describe_instances call and the loop over the         *)
(* Reservations of its response; the script never asks for a further page. *)
(***************************************************************************)
InstanceRows(reservations, account, region) ==
    LET ids == Flatten(reservations)
    IN  [i \in DOMAIN ids |-> <<"instance", ids[i], account, region>>]

DescribeInstances ==
    /\ pc = "describe_instances"
    /\ \/ \E listing \in EC2Listings(RowsLeft) :
              LET rows == InstanceRows(listing[1], credentials[ai], regions[ri])
              IN  /\ ec2_pages' = listing
                  /\ csv' = WriteRows(csv, rows)
                  /\ instance_count' = Counted(instance_count, rows)
                  /\ account_instance_count' = Counted(account_instance_count, rows)
                  /\ pc' = "list_clusters"
                  /\ UNCHANGED <<output, uncaught, faults>>
       \/ \E kind \in BotoFaults :
              /\ faults < MaxFaults
              /\ faults' = faults + 1
              /\ UNCHANGED <<ec2_pages, csv, instance_count, account_instance_count>>
              /\ IF kind = "ClientError"
                 THEN /\ log' = LogError(log, <<"Error enumerating ec2 instances", kind>>)
                      /\ console' = Append(console, <<"Error enumerating ec2 instances", kind>>)
                      /\ pc' = "list_clusters"
                      /\ UNCHANGED uncaught
                 ELSE /\ Raise("describe_instances", kind)
                      /\ UNCHANGED output
    /\ UNCHANGED <<inputs, ai, ri, csv_open, node_count, pod_count,
                   account_node_count, account_pod_count, eks_loops, cluster,
                   kube_loops>>

(***************************************************************************)
(* Lines 104-128: clusters, their nodegroups, and the auto scaling groups  *)
(* of each nodegroup.  The try of line 111 encloses the whole nodegroup    *)
(* loop of one cluster; the try of line 104 encloses the cluster loop.     *)
(***************************************************************************)
ListClusters ==
    /\ pc = "list_clusters"
    /\ \/ \E names \in Suffixes(ClusterNames, MaxClusters) :
              /\ clusters' = names
              /\ pc' = "clusters"
              /\ UNCHANGED <<output, uncaught, faults>>
       \/ \E kind \in BotoFaults :
              /\ faults < MaxFaults
              /\ faults' = faults + 1
              /\ UNCHANGED clusters
              /\ IF kind = "ClientError"
                 THEN /\ log' = LogError(log, <<"Error enumerating eks clusters", kind>>)
                      /\ console' = Append(console, <<"Error enumerating eks clusters", kind>>)
                      /\ pc' = "pair_summary"
                      /\ UNCHANGED uncaught
                 ELSE /\ Raise("list_clusters", kind)
                      /\ UNCHANGED output
    /\ ec2_pages' = <<>>      \* the instance listing is of no further use
    /\ UNCHANGED <<inputs, ai, ri, csv, csv_open, totals, pair_counts,
                   account_pod_count, cluster, nodegroups, kube_loops>>

NextCluster ==
    /\ pc = "clusters"
    /\ IF clusters = <<>>
       THEN /\ pc' = "pair_summary"
            /\ UNCHANGED <<clusters, nodegroups, output, uncaught, faults>>
       ELSE /\ clusters' = Tail(clusters)
            /\ \/ \E names \in Suffixes(NodegroupNames, MaxNodegroups) :
                      /\ nodegroups' = names
                      /\ pc' = "nodegroups"
                      /\ UNCHANGED <<output, uncaught, faults>>
               \/ \E kind \in BotoFaults :
                      /\ faults < MaxFaults
                      /\ faults' = faults + 1
                      /\ UNCHANGED nodegroups
                      /\ IF kind = "ClientError"
                         THEN /\ log' = LogError(log, <<"Error enumerating eks nodes", kind>>)
                              /\ console' = Append(console, <<"Error enumerating eks nodes", kind>>)
                              /\ UNCHANGED <<pc, uncaught>>
                         ELSE /\ Raise("list_nodegroups", kind)
                              /\ UNCHANGED output
    /\ UNCHANGED <<inputs, ai, ri, csv, csv_open, totals, pair_counts,
                   account_pod_count, ec2_pages, cluster, kube_loops>>

NodeRows(names, account, region) ==
    [i \in DOMAIN names |-> <<"node", names[i], account, region>>]

NextNodegroup ==
    /\ pc = "nodegroups"
    /\ IF nodegroups = <<>>
       THEN /\ pc' = "clusters"
            /\ UNCHANGED <<nodegroups, csv, node_count, account_node_count,
                           output, uncaught, faults>>
       ELSE /\ \/ \E names \in Prefixes(NodeNames, Min(MaxNodes, RowsLeft)) :
                      LET rows == NodeRows(names, credentials[ai], regions[ri])
                      IN  /\ csv' = WriteRows(csv, rows)
                          /\ node_count' = Counted(node_count, rows)
                          /\ account_node_count' = Counted(account_node_count, rows)
                          /\ nodegroups' = Tail(nodegroups)
                          /\ UNCHANGED <<pc, output, uncaught, faults>>
               \/ \E kind \in BotoFaults :
                      /\ faults < MaxFaults
                      /\ faults' = faults + 1
                      /\ UNCHANGED <<csv, node_count, account_node_count>>
                      /\ IF kind = "ClientError"
                         THEN \* caught at line 123, outside the nodegroup loop
                              /\ nodegroups' = <<>>
                              /\ log' = LogError(log, <<"Error enumerating eks nodes", kind>>)
                              /\ console' = Append(console, <<"Error enumerating eks nodes", kind>>)
                              /\ pc' = "clusters"
                              /\ UNCHANGED uncaught
                         ELSE /\ Raise("describe_nodegroup", kind)
                              /\ nodegroups' = Tail(nodegroups)
                              /\ UNCHANGED output
    /\ UNCHANGED <<inputs, ai, ri, csv_open, instance_count, pod_count,
                   account_instance_count, account_pod_count, ec2_pages, clusters,
                   cluster, kube_loops>>

(***************************************************************************)
(* Lines 130-136: the per-pair summary.                                    *)
(***************************************************************************)
PairSummary ==
    /\ pc = "pair_summary"
    /\ IF account_instance_count > 0 \/ account_node_count > 0
       THEN /\ log' = LogInfo(LogInfo(log, <<"Instances", account_instance_count>>),
                              <<"nodes", account_node_count>>)
            /\ console' = console \o
                   << <<"EC2 Instances", credentials[ai], regions[ri],
                        account_instance_count>>,
                      <<"K8s Nodes", credentials[ai], regions[ri],
                        account_node_count>> >>
       ELSE UNCHANGED output
    /\ pc' = "regions"
    /\ UNCHANGED <<inputs, ai, ri, csv, csv_open, totals, pair_counts,
                   account_pod_count, ec2_pages, eks_loops, cluster,
                   kube_loops, uncaught, faults>>

(***************************************************************************)
(* Lines 138-160: the pods of every kubeconfig context.  The try of line   *)
(* 139 encloses the context loop and catches ApiException only; the try of *)
(* line 147 encloses the pod listing of one context and the pod loop.      *)
(***************************************************************************)
ListContexts ==
    /\ pc = "list_contexts"
    /\ \/ \E names \in Suffixes(ContextNames, MaxContexts) :
              /\ contexts' = names
              /\ pc' = "contexts"
              /\ UNCHANGED <<output, uncaught, faults>>
       \/ \E kind \in ConfigFaults :
              /\ faults < MaxFaults
              /\ faults' = faults + 1
              /\ UNCHANGED contexts
              /\ IF kind = "ApiException"
                 THEN /\ log' = LogError(log, <<"Error enumerating pods", kind>>)
                      /\ console' = Append(console, <<"Error enumerating pods", kind>>)
                      /\ pc' = "totals"
                      /\ UNCHANGED uncaught
                 ELSE /\ Raise("list_kube_config_contexts", kind)
                      /\ UNCHANGED output
    /\ UNCHANGED <<inputs, ai, ri, csv, csv_open, totals, pair_counts,
                   account_pod_count, ec2_pages, eks_loops, cluster>>

LoadContext ==
    /\ pc = "contexts"
    /\ IF contexts = <<>>
       THEN /\ pc' = "totals"
            /\ UNCHANGED <<contexts, cluster, output, uncaught, faults>>
       ELSE /\ cluster' = Head(contexts)
            /\ contexts' = Tail(contexts)
            /\ \/ /\ pc' = "list_pods"
                  /\ UNCHANGED <<output, uncaught, faults>>
               \/ \E kind \in ConfigFaults :
                      /\ faults < MaxFaults
                      /\ faults' = faults + 1
                      /\ IF kind = "ApiException"
                         THEN \* caught at line 158, outside the context loop
                              /\ log' = LogError(log, <<"Error enumerating pods", kind>>)
                              /\ console' = Append(console, <<"Error enumerating pods", kind>>)
                              /\ pc' = "totals"
                              /\ UNCHANGED uncaught
                         ELSE /\ Raise("load_kube_config", kind)
                              /\ UNCHANGED output
    /\ UNCHANGED <<inputs, ai, ri, csv, csv_open, totals, pair_counts,
                   account_pod_count, ec2_pages, eks_loops>>

PodRows(items, context) ==
    [i \in DOMAIN items |-> <<"pod", items[i][1], context, items[i][2]>>]

ListPods ==
    /\ pc = "list_pods"
    /\ \/ \E items \in Prefixes(PodItems, Min(MaxPods, RowsLeft)) :
              /\ UNCHANGED <<output, faults>>
              /\ IF items # <<>> /\ account_pod_count = Unbound
                 THEN \* line 153 reads a name that line 86 never bound: the
                      \* first pod is written and counted, then the script ends
                      /\ csv' = WriteRows(csv, PodRows(SubSeq(items, 1, 1), cluster))
                      /\ pod_count' = Counted(pod_count, SubSeq(items, 1, 1))
                      /\ Raise("account_pod_count", "NameError")
                      /\ UNCHANGED account_pod_count
                 ELSE /\ csv' = WriteRows(csv, PodRows(items, cluster))
                      /\ pod_count' = Counted(pod_count, items)
                      /\ account_pod_count' =
                             IF items = <<>> THEN account_pod_count
                             ELSE Counted(account_pod_count, items)
                      /\ pc' = "contexts"
                      /\ UNCHANGED uncaught
       \/ \E kind \in PodFaults :
              /\ faults < MaxFaults
              /\ faults' = faults + 1
              /\ UNCHANGED <<csv, pod_count, account_pod_count>>
              /\ IF kind = "ApiException"
                 THEN \* lines 155-157 write to the console only
                      /\ console' = Append(console, <<"Error enumerating pods", kind>>)
                      /\ pc' = "contexts"
                      /\ UNCHANGED <<log, uncaught>>
                 ELSE /\ Raise("list_pod_for_all_namespaces", kind)
                      /\ UNCHANGED output
    /\ UNCHANGED <<inputs, ai, ri, csv_open, instance_count, node_count,
                   pair_counts, ec2_pages, eks_loops, cluster, contexts>>

(***************************************************************************)
(* Lines 162-179: the three totals, then the file is closed.               *)
(***************************************************************************)
Summary ==
    /\ pc = "totals"
    /\ log' = log \o << <<"INFO", "Total Instances", instance_count>>,
                        <<"INFO", "Total nodes", node_count>>,
                        <<"INFO", "Total pods", pod_count>>,
                        <<"INFO", "Output file">>, <<"INFO", "Log file">> >>
    /\ console' = console \o << <<"Total Instances", instance_count>>,
                                <<"Total nodes", node_count>>,
                                <<"Total pods", pod_count>>,
                                <<"Output file">>, <<"Log file">> >>
    /\ csv_open' = FALSE
    /\ pc' = "done"
    /\ UNCHANGED <<inputs, ai, ri, csv, totals, pair_counts, account_pod_count,
                   ec2_pages, eks_loops, cluster, kube_loops, uncaught, faults>>

Next ==
    \/ NextAccount
    \/ NextRegion
    \/ DescribeInstances
    \/ ListClusters
    \/ NextCluster
    \/ NextNodegroup
    \/ PairSummary
    \/ ListContexts
    \/ LoadContext
    \/ ListPods
    \/ Summary

Spec == Init /\ [][Next]_vars

(***************************************************************************)
(* What the properties read off a state.                                   *)
(***************************************************************************)
Range(f) == {f[i] : i \in DOMAIN f}

RowCount(type) == Cardinality({i \in 2..Len(csv) : csv[i][1] = type})

\* the (account, region) units the script has announced (line 72)
Visited == {<<l[2], l[3]>> : l \in {m \in Range(console) : m[1] = "Pair"}}

ErrorTexts ==
    {"Error enumerating ec2 instances", "Error enumerating eks clusters",
     "Error enumerating eks nodes", "Error enumerating pods"}

ConsoleErrors == SelectSeq(console, LAMBDA l : l[1] \in ErrorTexts)
LogErrors == SelectSeq(log, LAMBDA l : l[1] = "ERROR")

PairSites ==
    {"session", "describe_instances", "list_clusters", "list_nodegroups",
     "describe_nodegroup"}

AfterPairs == {"list_contexts", "contexts", "list_pods", "totals", "done"}

\* s is t with something before it and something after it
Contains(s, t) ==
    \E i \in 0..(Len(s) - Len(t)) :
        s = SubSeq(s, 1, i) \o t \o SubSeq(s, i + Len(t) + 1, Len(s))

KeptAccounts == {a \in Range(credentials) : a # "default" /\ ~Contains(a, "netsec")}
KeptRegions == Range(available_regions) \ Range(unused_regions)

Position(list, x) == CHOOSE i \in DOMAIN list : list[i] = x

\* where a row stands in the order of discovery
Rank(row) ==
    IF row[1] = "pod" THEN <<Len(credentials) + 1, 0, 0>>
    ELSE <<Position(credentials, row[3]), Position(regions, row[4]),
           IF row[1] = "instance" THEN 1 ELSE 2>>

NotAfter(r, q) ==
    \/ r[1] < q[1]
    \/ r[1] = q[1] /\ r[2] < q[2]
    \/ r[1] = q[1] /\ r[2] = q[2] /\ r[3] <= q[3]

(***************************************************************************)
(* C1: a fault raised while the session and clients of a pair are set up,  *)
(* or while its instances or nodes are collected, never ends the script:   *)
(* node collection of the pair and the next pair still follow.             *)
(***************************************************************************)
C1_PairFaultIsContained == pc = "crashed" => uncaught[1] \notin PairSites

(***************************************************************************)
(* C2: a fault while a context is activated or its pods are listed skips   *)
(* only that context: it neither ends the script nor keeps the later       *)
(* contexts from being attempted.                                          *)
(***************************************************************************)
C2_ContextFaultSkipsOneContext ==
    /\ pc = "crashed" =>
           uncaught[1] \notin {"load_kube_config", "list_pod_for_all_namespaces"}
    /\ (pc = "totals" /\ uncaught = <<>>) => contexts = <<>>

(***************************************************************************)
(* C3: when no (account, region) pair was processed, every pod of every    *)
(* reachable context still yields its record and the script goes on to the *)
(* summary: writing a pod row never ends the script.                       *)
(***************************************************************************)
C3_PodsNeedNoPair ==
    (Visited = {} /\ pc = "crashed") => uncaught[1] # "account_pod_count"

(***************************************************************************)
(* C4: in every state the three counters equal the number of rows of their *)
(* type in the output file, and the totals of the final summary are these  *)
(* numbers, whatever faults were raised on the way.                        *)
(***************************************************************************)
C4_TotalsMatchRows ==
    /\ instance_count = RowCount("instance")
    /\ node_count = RowCount("node")
    /\ pod_count = RowCount("pod")
    /\ pc = "done" =>
           /\ <<"Total Instances", RowCount("instance")>> \in Range(console)
           /\ <<"Total nodes", RowCount("node")>> \in Range(console)
           /\ <<"Total pods", RowCount("pod")>> \in Range(console)
           /\ <<"INFO", "Total Instances", RowCount("instance")>> \in Range(log)
           /\ <<"INFO", "Total nodes", RowCount("node")>> \in Range(log)
           /\ <<"INFO", "Total pods", RowCount("pod")>> \in Range(log)

C4_Witness ==
    /\ pc = "done"
    /\ faults > 0
    /\ RowCount("instance") + RowCount("node") > 0
    /\ RowCount("pod") > 0

(***************************************************************************)
(* C5: when describe_instances succeeds for a pair, the pair has one       *)
(* instance row for every instance on every page of the listing.           *)
(***************************************************************************)
C5_AllPagesDrained ==
    (pc = "list_clusters" /\ ec2_pages # <<>>) =>
        account_instance_count = Len(Flatten(Flatten(ec2_pages)))

(***************************************************************************)
(* C6: the regions kept are the available regions outside the denylist;    *)
(* the units attempted so far are exactly the pairs, up to the place the   *)
(* two loops have reached, of a profile that is neither "default" nor      *)
(* holds "netsec" and of a kept region, so that none is left out and none  *)
(* is added; instance and node rows name such pairs only; and once the     *)
(* account loop is over the units attempted are the whole product.         *)
(***************************************************************************)
C6_UnitsAreTheFilteredProduct ==
    LET accounts == KeptAccounts
        kept == KeptRegions
        seen == Visited
        due == {<<credentials[i], regions[j]>> :
                   i \in {k \in 1..ai : credentials[k] \in accounts},
                   j \in 1..Len(regions)}
        ahead == {<<credentials[ai], regions[j]>> : j \in (ri + 1)..Len(regions)}
    IN  /\ Range(regions) = kept
        /\ seen = IF ai > 0 THEN due \ ahead ELSE {}
        /\ \A i \in 2..Len(csv) :
               csv[i][1] \in {"instance", "node"} =>
                   csv[i][3] \in accounts /\ csv[i][4] \in kept
        /\ pc \in AfterPairs => seen = accounts \X kept

C6_Witness ==
    /\ pc = "done"
    /\ credentials = <<"netsec-test", "dev">>
    /\ available_regions = <<"af-south-1", "eu-west-1">>
    /\ Visited = {<<"dev", "eu-west-1">>}
    /\ RowCount("instance") > 0

(***************************************************************************)
(* C7: the header is the first row; instance and node rows stand in the    *)
(* order of their account, then of their region, then instances before     *)
(* nodes; pod rows come after all of them; and a step only ever adds rows  *)
(* at the end of the file.                                                 *)
(***************************************************************************)
DiscoveryOrder ==
    /\ csv[1] = Header
    /\ \A i, j \in 2..Len(csv) : i < j => NotAfter(Rank(csv[i]), Rank(csv[j]))

AppendOnly == Len(csv') >= Len(csv) /\ SubSeq(csv', 1, Len(csv)) = csv

C7_RowsInDiscoveryOrder == []DiscoveryOrder /\ [][AppendOnly]_vars

C7_Witness ==
    /\ pc = "done"
    /\ Len(csv) = 3
    /\ csv[2][1] = "node"
    /\ csv[3][1] = "instance"

(***************************************************************************)
(* C8: a fault while the context list is enumerated does not end the       *)
(* script: there are no pod rows, and the summary and the close follow.    *)
(***************************************************************************)
C8_ContextListFaultIsContained ==
    pc = "crashed" => uncaught[1] # "list_kube_config_contexts"

(***************************************************************************)
(* C9: a step of the nodegroup loop that does not end the script goes on   *)
(* with the remaining nodegroups of the same cluster, also when the        *)
(* description of the nodegroup at hand could not be fetched.              *)
(***************************************************************************)
C9_NodegroupFaultSkipsOneNodegroup ==
    [][(pc = "nodegroups" /\ nodegroups # <<>> /\ pc' # "crashed")
           => nodegroups' = Tail(nodegroups)]_vars

(***************************************************************************)
(* C10: every fault that was caught is reported on the console and in the  *)
(* log file alike, and the step in which a collaborator raises a fault     *)
(* writes no row.                                                          *)
(***************************************************************************)
ReportedAlike ==
    /\ Len(LogErrors) = Len(ConsoleErrors)
    /\ \A i \in DOMAIN LogErrors : Tail(LogErrors[i]) = ConsoleErrors[i]

C10_FaultsOnConsoleAndInLog ==
    []ReportedAlike /\ [][faults' # faults => csv' = csv]_vars

====
